---- MODULE Spec2Model ----
(***************************************************************************)
(* Model of the LUS labeler backend: the history and user tables behind    *)
(* the FastAPI handlers of backend/main.py, the Drive catalog resolver and *)
(* the streaming generator of backend/drive_datasource.py, and the         *)
(* lru_cache'd constructor of the Drive client handle.                     *)
(***************************************************************************)
EXTENDS Integers, Sequences, FiniteSets, TLC

VARIABLES
    history,    \* table history_entries: a set of rows
    now,        \* the value datetime.utcnow() returns
    hResp,      \* response of the history request in flight, or NoResp
    written,    \* per (patient_id, sequence_id): the last POST /history write
    users,      \* table users: a set of rows
    reqs,       \* the POST /users requests in flight, by request slot
    uResp,      \* response of the delete/login/change-password request
    curPw,      \* per username: password set by the last successful
                \* create or change-password, NoPw when the user is absent
    stream,     \* the download_video_stream generator frame
    remote,     \* content of the Drive folder tree
    cat,        \* the catalog request in flight
    envSet,     \* GOOGLE_SERVICE_ACCOUNT_JSON is set
    cache,      \* the lru_cache of get_drive_datasource: <<>> or <<handle>>
    built,      \* number of DriveDataSource objects constructed so far
    threads     \* the request threads that call get_drive_datasource

histVars   == <<history, now, hResp, written>>
userVars   == <<users, reqs, uResp, curPw>>
streamVars == <<stream>>
catVars    == <<remote, cat>>
clientVars == <<envSet, cache, built, threads>>
vars == <<history, now, hResp, written, users, reqs, uResp, curPw,
          stream, remote, cat, envSet, cache, built, threads>>

\* ---------------------------------------------------------------- bounds
MaxId   == 3   \* largest primary key the tables hand out
MaxTime == 1   \* largest clock value
NumRequests == 2   \* POST /users requests that can be in flight together

\* ------------------------------------------------------------- utilities
Max(S) == CHOOSE m \in S : \A n \in S : n <= m

Range(s) == {s[i] : i \in 1..Len(s)}

\* the rows of a set, as the sequence ordered by descending id
RECURSIVE OrderByIdDesc(_)
OrderByIdDesc(S) ==
    IF S = {} THEN <<>>
    ELSE LET top == CHOOSE r \in S : \A q \in S : q.id <= r.id
         IN  <<top>> \o OrderByIdDesc(S \ {top})

RECURSIVE OrderByIdAsc(_)
OrderByIdAsc(S) ==
    IF S = {} THEN <<>>
    ELSE LET low == CHOOSE r \in S : \A q \in S : r.id <= q.id
         IN  <<low>> \o OrderByIdAsc(S \ {low})

\* INTEGER PRIMARY KEY of SQLite: one more than the largest key in the table
NextId(table) == IF table = {} THEN 1 ELSE Max({r.id : r \in table}) + 1

\* ======================================================== history store
PatientIds  == {"P1"}
SequenceIds == {"S1", "S2", "S3"}
Labels      == {"H-LUS", "C-LUS"}
Annotators  == {"", "ann1"}
None        == "None"          \* Python's None for an absent query parameter
NoResp      == [op |-> "none"]
NoWrite     == <<>>

Pairs == PatientIds \X SequenceIds

\* schemas.HistoryEntryCreate
HistoryEntryCreate ==
    [patient_id : PatientIds, sequence_id : SequenceIds,
     previous_label : {"I-LUS"}, updated_label : Labels,
     annotator : Annotators]

\* UniqueConstraint("patient_id", "sequence_id")
uq_patient_sequence(table, row) ==
    \A r \in table : <<r.patient_id, r.sequence_id>>
                        # <<row.patient_id, row.sequence_id>>

\* POST /history
add_history(entry) ==
    LET db_entry == [id |-> NextId(history),
                     patient_id |-> entry.patient_id,
                     sequence_id |-> entry.sequence_id,
                     previous_label |-> entry.previous_label,
                     updated_label |-> entry.updated_label,
                     annotator |-> entry.annotator,
                     timestamp |-> now]
    IN  /\ hResp = NoResp
        /\ NextId(history) <= MaxId
        /\ IF uq_patient_sequence(history, db_entry)
           THEN /\ history' = history \cup {db_entry}
                /\ hResp' = [op |-> "add_history", status |-> 201,
                             error |-> "", body |-> <<db_entry>>]
           ELSE \* db.commit() raises IntegrityError, nothing is stored
                /\ history' = history
                /\ hResp' = [op |-> "add_history", status |-> 500,
                             error |-> "IntegrityError", body |-> <<>>]
        /\ written' = [written EXCEPT
                         ![<<entry.patient_id, entry.sequence_id>>] =
                             <<entry.updated_label, now>>]
        /\ UNCHANGED now

\* mutant: the query is ordered by ascending id
list_history_ascending(annotator) ==
    LET ordered  == OrderByIdAsc(history)
        filtered == IF annotator # None /\ annotator # ""
                    THEN SelectSeq(ordered, LAMBDA r : r.annotator = annotator)
                    ELSE ordered
    IN  /\ hResp = NoResp
        /\ hResp' = [op |-> "list_history", status |-> 200, error |-> "",
                     annotator |-> annotator, body |-> filtered]
        /\ UNCHANGED <<history, now, written>>

\* GET /history
list_history(annotator) ==
    LET ordered  == OrderByIdDesc(history)
        \* "if annotator:" is false for None and for the empty string
        filtered == IF annotator # None /\ annotator # ""
                    THEN SelectSeq(ordered, LAMBDA r : r.annotator = annotator)
                    ELSE ordered
    IN  /\ hResp = NoResp
        /\ hResp' = [op |-> "list_history", status |-> 200, error |-> "",
                     annotator |-> annotator, body |-> filtered]
        /\ UNCHANGED <<history, now, written>>

\* DELETE /history/{entry_id}
delete_history(entry_id) ==
    /\ hResp = NoResp
    /\ IF \E r \in history : r.id = entry_id
       THEN LET db_entry == CHOOSE r \in history : r.id = entry_id
            IN  /\ history' = history \ {db_entry}
                /\ written' = [written EXCEPT
                       ![<<db_entry.patient_id, db_entry.sequence_id>>] =
                           NoWrite]
                /\ hResp' = [op |-> "delete_history", status |-> 200,
                             error |-> "", body |-> <<>>]
       ELSE /\ UNCHANGED <<history, written>>
            /\ hResp' = [op |-> "delete_history", status |-> 404,
                         error |-> "History entry not found", body |-> <<>>]
    /\ UNCHANGED now

\* the response leaves the server: the next request can be handled
HistoryRespond ==
    /\ hResp # NoResp
    /\ hResp' = NoResp
    /\ UNCHANGED <<history, now, written>>

\* time passes between two requests
Tick ==
    /\ hResp = NoResp
    /\ now < MaxTime
    /\ now' = now + 1
    /\ UNCHANGED <<history, hResp, written>>

InitHistoryVars ==
    /\ history = {}
    /\ now = 0
    /\ hResp = NoResp
    /\ written = [p \in Pairs |-> NoWrite]

\* ========================================================== user store
Usernames == {"alice", "bob"}
Passwords == {"pw1", "pw2"}
NoPw      == "NoPw"
Requests  == 1..NumRequests
Idle      == [pc |-> "idle", username |-> "", password |-> "",
              status |-> 0, detail |-> ""]

PASSWORD_SALT == "lus-labeler-demo-salt"

\* hashlib.sha256(data).hexdigest(): the digest names the data it was made of
sha256_hexdigest(data) == <<"sha256", data>>

hash_password(password) == sha256_hexdigest(PASSWORD_SALT \o password)

\* mutant: every password verifies
verify_password_any(plain_password, hashed_password) == TRUE

verify_password(plain_password, hashed_password) ==
    hash_password(plain_password) = hashed_password

\* db.query(models.User).filter(models.User.username == username).first()
UserByName(username) ==
    IF \E u \in users : u.username = username
    THEN <<CHOOSE u \in users : u.username = username>>
    ELSE <<>>

\* POST /users, first database round trip: the SELECT for the username
create_user_query(r, user) ==
    /\ reqs[r].pc = "idle"
    /\ IF UserByName(user.username) # <<>>
       THEN reqs' = [reqs EXCEPT ![r] =
                       [pc |-> "done", username |-> user.username,
                        password |-> "", status |-> 400,
                        detail |-> "Username already exists"]]
       ELSE reqs' = [reqs EXCEPT ![r] =
                       [pc |-> "insert", username |-> user.username,
                        password |-> user.password, status |-> 0,
                        detail |-> ""]]
    /\ UNCHANGED <<users, uResp, curPw>>

\* POST /users, second round trip: db.add, db.commit, db.refresh.
\* Column username is unique=True: the INSERT of a taken name raises
\* IntegrityError, which no handler catches.
create_user_commit(r) ==
    LET user_obj == [id |-> NextId(users),
                     username |-> reqs[r].username,
                     password_hash |-> hash_password(reqs[r].password)]
    IN  /\ reqs[r].pc = "insert"
        /\ IF UserByName(reqs[r].username) = <<>>
           THEN /\ NextId(users) <= MaxId
                /\ users' = users \cup {user_obj}
                /\ curPw' = [curPw EXCEPT ![reqs[r].username] =
                                              reqs[r].password]
                /\ reqs' = [reqs EXCEPT ![r] =
                              [pc |-> "done", username |-> reqs[r].username,
                               password |-> "", status |-> 201,
                               detail |-> ""]]
           ELSE /\ UNCHANGED <<users, curPw>>
                /\ reqs' = [reqs EXCEPT ![r] =
                              [pc |-> "done", username |-> reqs[r].username,
                               password |-> "", status |-> 500,
                               detail |-> "IntegrityError"]]
        /\ UNCHANGED uResp

\* the response of a POST /users leaves the server
create_user_return(r) ==
    /\ reqs[r].pc = "done"
    /\ reqs' = [reqs EXCEPT ![r] = Idle]
    /\ UNCHANGED <<users, uResp, curPw>>

\* mutant: the password check of the handler is missing
delete_user_unchecked(payload) ==
    LET found == UserByName(payload.username)
    IN  /\ uResp = NoResp
        /\ IF found = <<>>
           THEN /\ uResp' = [op |-> "delete_user", status |-> 404,
                             username |-> payload.username,
                             password |-> payload.password]
                /\ UNCHANGED <<users, curPw>>
           ELSE /\ users' = users \ {found[1]}
                /\ curPw' = [curPw EXCEPT ![payload.username] = NoPw]
                /\ uResp' = [op |-> "delete_user", status |-> 200,
                             username |-> payload.username,
                             password |-> payload.password]
        /\ UNCHANGED reqs

\* DELETE /users
delete_user(payload) ==
    LET found == UserByName(payload.username)
    IN  /\ uResp = NoResp
        /\ IF found = <<>>
           THEN /\ uResp' = [op |-> "delete_user", status |-> 404,
                             username |-> payload.username,
                             password |-> payload.password]
                /\ UNCHANGED <<users, curPw>>
           ELSE IF ~verify_password(payload.password, found[1].password_hash)
           THEN /\ uResp' = [op |-> "delete_user", status |-> 403,
                             username |-> payload.username,
                             password |-> payload.password]
                /\ UNCHANGED <<users, curPw>>
           ELSE /\ users' = users \ {found[1]}
                /\ curPw' = [curPw EXCEPT ![payload.username] = NoPw]
                /\ uResp' = [op |-> "delete_user", status |-> 200,
                             username |-> payload.username,
                             password |-> payload.password]
        /\ UNCHANGED reqs

\* POST /auth/login
login(payload) ==
    LET found == UserByName(payload.username)
    IN  /\ uResp = NoResp
        /\ uResp' = [op |-> "login",
                     status |-> IF found = <<>> THEN 401
                                ELSE IF ~verify_password(payload.password,
                                                 found[1].password_hash)
                                THEN 401 ELSE 200,
                     username |-> payload.username,
                     password |-> payload.password]
        /\ UNCHANGED <<users, reqs, curPw>>

\* POST /auth/change-password
change_password(payload) ==
    LET found == UserByName(payload.username)
    IN  /\ uResp = NoResp
        /\ IF found = <<>>
           THEN /\ uResp' = [op |-> "change_password", status |-> 404,
                             username |-> payload.username,
                             password |-> payload.old_password]
                /\ UNCHANGED <<users, curPw>>
           ELSE IF ~verify_password(payload.old_password,
                                    found[1].password_hash)
           THEN /\ uResp' = [op |-> "change_password", status |-> 400,
                             username |-> payload.username,
                             password |-> payload.old_password]
                /\ UNCHANGED <<users, curPw>>
           ELSE /\ users' = (users \ {found[1]}) \cup
                      {[found[1] EXCEPT !.password_hash =
                            hash_password(payload.new_password)]}
                /\ curPw' = [curPw EXCEPT ![payload.username] =
                                              payload.new_password]
                /\ uResp' = [op |-> "change_password", status |-> 200,
                             username |-> payload.username,
                             password |-> payload.old_password]
        /\ UNCHANGED reqs

\* the response of a delete, login or change-password leaves the server
UserRespond ==
    /\ uResp # NoResp
    /\ uResp' = NoResp
    /\ UNCHANGED <<users, reqs, curPw>>

InitUserVars ==
    /\ users = {}
    /\ reqs = [r \in Requests |-> Idle]
    /\ uResp = NoResp
    /\ curPw = [u \in Usernames |-> NoPw]

\* ====================================================== streaming relay
MaxFileLen == 3   \* longest remote file, in bytes
MaxChunk   == 2   \* largest chunk_size
Bytes      == {0, 1}

RECURSIVE SeqsUpTo(_, _)
SeqsUpTo(S, n) ==
    IF n = 0 THEN {<<>>}
    ELSE LET shorter == SeqsUpTo(S, n - 1)
         IN  shorter \cup {Append(s, x) : s \in {t \in shorter : Len(t) = n - 1},
                                          x \in S}

Files == SeqsUpTo(Bytes, MaxFileLen)

Min(a, b) == IF a <= b THEN a ELSE b

StreamIdle ==
    [pc |-> "idle", file |-> <<>>, chunk_size |-> 1, progress |-> 0,
     fh |-> <<>>, done |-> FALSE, yielded |-> <<>>, fetches |-> 0,
     failedAt |-> 0]

\* GET /api/videos/{file_id}: the generator is created and started; it runs
\* up to the head of "while not done"
download_video_stream(file, chunk_size) ==
    /\ stream.pc = "idle"
    /\ stream' = [StreamIdle EXCEPT !.pc = "loop", !.file = file,
                                    !.chunk_size = chunk_size]

\* downloader.next_chunk() returns: the next range of at most chunk_size
\* bytes is written to fh; then data = fh.getvalue() and, if data, yield data
next_chunk_returns ==
    /\ stream.pc = "loop"
    /\ ~stream.done
    /\ LET upto    == Min(stream.progress + stream.chunk_size,
                          Len(stream.file))
           content == SubSeq(stream.file, stream.progress + 1, upto)
           data    == stream.fh \o content
       IN  stream' = [stream EXCEPT
                        !.fetches = @ + 1,
                        !.progress = upto,
                        !.done = (upto = Len(stream.file)),
                        !.fh = data,
                        !.yielded = IF data # <<>> THEN Append(@, data) ELSE @,
                        !.pc = IF data # <<>> THEN "yield" ELSE "loop"]

\* mutant: the except clause hands out what the buffer holds before it returns
next_chunk_raises_yielding ==
    /\ stream.pc = "loop"
    /\ ~stream.done
    /\ stream' = [stream EXCEPT !.fetches = @ + 1,
                                !.failedAt = stream.fetches + 1,
                                !.yielded = Append(@, stream.fh),
                                !.pc = "finished"]

\* downloader.next_chunk() raises: "except Exception" prints and returns
next_chunk_raises ==
    /\ stream.pc = "loop"
    /\ ~stream.done
    /\ stream' = [stream EXCEPT !.fetches = @ + 1,
                                !.failedAt = stream.fetches + 1,
                                !.pc = "finished"]

\* mutant: the buffer is not emptied after the yield
resume_after_yield_keeping ==
    /\ stream.pc = "yield"
    /\ stream' = [stream EXCEPT !.pc = "loop"]

\* the consumer asks for the next chunk: fh.seek(0), fh.truncate(0)
resume_after_yield ==
    /\ stream.pc = "yield"
    /\ stream' = [stream EXCEPT !.fh = <<>>, !.pc = "loop"]

\* "while not done" ends: the generator returns
stream_exhausted ==
    /\ stream.pc = "loop"
    /\ stream.done
    /\ stream' = [stream EXCEPT !.pc = "finished"]

\* the response is closed; the next request can be streamed
stream_close ==
    /\ stream.pc = "finished"
    /\ stream' = StreamIdle

InitStreamVars == stream = StreamIdle

\* ===================================================== catalog resolver
MaxFolders == 3   \* most children a patient folder has
PageSize   == 2   \* entries the remote store returns per page

\* names are sequences of characters, so that sorting, lower() and
\* endswith() are computed on the characters
HLUS   == <<"H", "-", "L", "U", "S">>
CLUS   == <<"C", "-", "L", "U", "S">>
ILUS   == <<"I", "-", "L", "U", "S">>
XOTHER == <<"X", "-", "o">>
P1     == <<"P", "1">>
P2     == <<"P", "2">>
B_MP4  == <<"b", ".", "m", "p", "4">>
A_MP4  == <<"A", ".", "M", "P", "4">>
R_TXT  == <<"r", ".", "t", "x", "t">>
DOT_MP4 == <<".", "m", "p", "4">>

\* code points of the characters in use
Ord == [c \in {"-", ".", "1", "2", "4", "A", "C", "H", "I", "L", "M", "P",
               "S", "U", "X", "a", "b", "m", "o", "p", "r", "t", "x"} |->
        CASE c = "-" -> 45 [] c = "." -> 46 [] c = "1" -> 49 [] c = "2" -> 50
          [] c = "4" -> 52 [] c = "A" -> 65 [] c = "C" -> 67 [] c = "H" -> 72
          [] c = "I" -> 73 [] c = "L" -> 76 [] c = "M" -> 77 [] c = "P" -> 80
          [] c = "S" -> 83 [] c = "U" -> 85 [] c = "X" -> 88 [] c = "a" -> 97
          [] c = "b" -> 98 [] c = "m" -> 109 [] c = "o" -> 111
          [] c = "p" -> 112 [] c = "r" -> 114 [] c = "t" -> 116
          [] c = "x" -> 120]

\* str.lower() of one character: only A, M and P have their lower case in use
LowerChar(c) ==
    CASE c = "A" -> "a" [] c = "M" -> "m" [] c = "P" -> "p" [] OTHER -> c

lower(name) == [i \in 1..Len(name) |-> LowerChar(name[i])]

endswith(name, suffix) ==
    /\ Len(name) >= Len(suffix)
    /\ SubSeq(name, Len(name) - Len(suffix) + 1, Len(name)) = suffix

\* Python's str "<": lexicographic on code points
RECURSIVE StrLess(_, _)
StrLess(a, b) ==
    IF b = <<>> THEN FALSE
    ELSE IF a = <<>> THEN TRUE
    ELSE IF Ord[Head(a)] # Ord[Head(b)] THEN Ord[Head(a)] < Ord[Head(b)]
    ELSE StrLess(Tail(a), Tail(b))

\* insert x into the sorted sequence s of [key, val] records, after the
\* elements whose key is not greater (the sort is stable)
RECURSIVE InsertSorted(_, _)
InsertSorted(s, x) ==
    IF s = <<>> THEN <<x>>
    ELSE IF StrLess(x.key, Head(s).key) THEN <<x>> \o s
    ELSE <<Head(s)>> \o InsertSorted(Tail(s), x)

RECURSIVE SortByKey(_)
SortByKey(s) ==
    IF s = <<>> THEN <<>>
    ELSE InsertSorted(SortByKey(SubSeq(s, 1, Len(s) - 1)), s[Len(s)])

\* sorted(names) and list.sort(key=...), on the elements paired with
\* their sort keys
sorted(keyed) ==
    LET ordered == SortByKey(keyed)
    IN  [i \in 1..Len(keyed) |-> ordered[i].val]

\* a child of a remote folder: its name and whether its mimeType is
\* application/vnd.google-apps.folder
Folder(name) == [name |-> name, folder |-> TRUE]
PlainFile(name) == [name |-> name, folder |-> FALSE]

RootListings ==
    {<<>>, <<Folder(P1)>>, <<Folder(P2), Folder(P1)>>,
     <<PlainFile(P1), Folder(P2)>>}
ClassListings ==
    SeqsUpTo({Folder(HLUS), Folder(CLUS), Folder(ILUS), Folder(XOTHER),
              PlainFile(HLUS)}, MaxFolders)
FileListings ==
    {<<>>, <<PlainFile(B_MP4), PlainFile(A_MP4)>>,
     <<PlainFile(R_TXT), PlainFile(B_MP4), Folder(A_MP4)>>}

\* The remote tree: the root folder has id <<>>, the i-th child of the
\* folder with id p has id Append(p, i).  Every patient folder has the
\* children remote.classes and every class folder the children remote.files.
RemoteChildren(parent_id) ==
    CASE Len(parent_id) = 0 -> remote.root
      [] Len(parent_id) = 1 -> remote.classes
      [] Len(parent_id) = 2 -> remote.files
      [] OTHER -> <<>>

\* what the query of a listing selects, as {id, name} objects in the
\* order of the remote store
RECURSIVE Selected(_, _, _)
Selected(parent_id, folders, n) ==
    IF n = 0 THEN <<>>
    ELSE LET child == RemoteChildren(parent_id)[n]
             rest  == Selected(parent_id, folders, n - 1)
         IN  IF child.folder = folders
             THEN Append(rest, [id |-> Append(parent_id, n),
                                name |-> child.name])
             ELSE rest

QueryResult(parent_id, folders) ==
    Selected(parent_id, folders, Len(RemoteChildren(parent_id)))

\* files().list(q, pageToken).execute(): page_token 0 is None, otherwise the
\* number of entries already returned
RemotePage(parent_id, folders, page_token) ==
    LET all  == QueryResult(parent_id, folders)
        upto == Min(page_token + PageSize, Len(all))
    IN  [files |-> SubSeq(all, page_token + 1, upto),
         nextPageToken |-> IF upto < Len(all) THEN upto ELSE 0]

PatientArgs == {P1, P2}
ClassArgs   == {HLUS, XOTHER}
ROOT        == <<>>        \* settings.drive_data_root_id

CatIdle ==
    [pc |-> "idle", op |-> "", patient_id |-> <<>>, class_id |-> <<>>,
     stage |-> 0, parent_id |-> <<>>, folders |-> TRUE, page_token |-> 0,
     children |-> <<>>, failed |-> FALSE, result |-> <<>>, status |-> 0]

\* the listing loop is entered for parent_id
StartListing(c, stage, parent_id, folders) ==
    [c EXCEPT !.pc = "listing", !.stage = stage, !.parent_id = parent_id,
              !.folders = folders, !.page_token = 0, !.children = <<>>]

\* the handler returns
Finish(c, result, status) ==
    [c EXCEPT !.pc = "done", !.result = result, !.status = status]

\* _find_child_folder_by_name, on the listing it made
_find_child_folder_by_name(listed, name) ==
    IF \E i \in 1..Len(listed) : listed[i].name = name
    THEN <<listed[CHOOSE i \in 1..Len(listed) :
                     /\ listed[i].name = name
                     /\ \A j \in 1..(i - 1) : listed[j].name # name]>>
    ELSE <<>>

VALID == <<HLUS, CLUS, ILUS>>

\* list_patients after its listing, and the answer of api_list_patients
list_patients(c, folders) ==
    Finish(c, sorted([i \in 1..Len(folders) |->
                         [key |-> folders[i].name, val |-> folders[i].name]]),
           200)

\* mutant: the listed names that are valid, in the order of the listing
list_classes_listing_order(c, listed) ==
    IF c.stage = 1
    THEN LET patient_folder == _find_child_folder_by_name(listed, c.patient_id)
         IN  IF patient_folder = <<>>
             THEN Finish(c, <<>>, 404)
             ELSE StartListing(c, 2, patient_folder[1].id, TRUE)
    ELSE LET class_names == [i \in 1..Len(listed) |-> listed[i].name]
             classes == SelectSeq(class_names, LAMBDA v : v \in Range(VALID))
         IN  Finish(c, classes, IF classes = <<>> THEN 404 ELSE 200)

\* list_classes after the listing of stage c.stage, and the answer of
\* api_list_classes_for_patient
list_classes(c, listed) ==
    IF c.stage = 1
    THEN LET patient_folder == _find_child_folder_by_name(listed, c.patient_id)
         IN  IF patient_folder = <<>>
             THEN Finish(c, <<>>, 404)
             ELSE StartListing(c, 2, patient_folder[1].id, TRUE)
    ELSE LET class_names == [i \in 1..Len(listed) |-> listed[i].name]
             classes == SelectSeq(VALID, LAMBDA v : v \in Range(class_names))
         IN  Finish(c, classes, IF classes = <<>> THEN 404 ELSE 200)

\* list_videos after the listing of stage c.stage, and the answer of
\* api_list_videos_for_patient_class
list_videos(c, listed) ==
    IF c.stage = 1
    THEN LET patient_folder == _find_child_folder_by_name(listed, c.patient_id)
         IN  IF patient_folder = <<>>
             THEN Finish(c, <<>>, 200)
             ELSE StartListing(c, 2, patient_folder[1].id, TRUE)
    ELSE IF c.stage = 2
    THEN LET class_folder == _find_child_folder_by_name(listed, c.class_id)
         IN  IF class_folder = <<>>
             THEN Finish(c, <<>>, 200)
             ELSE StartListing(c, 3, class_folder[1].id, FALSE)
    ELSE LET mp4 == SelectSeq(listed,
                        LAMBDA f : endswith(lower(f.name), DOT_MP4))
             videos == [i \in 1..Len(mp4) |->
                          [patient_id |-> c.patient_id,
                           class_id |-> c.class_id,
                           file_id |-> mp4[i].id,
                           file_name |-> mp4[i].name]]
         IN  Finish(c, sorted([i \in 1..Len(videos) |->
                                  [key |-> videos[i].file_name,
                                   val |-> videos[i]]]), 200)

\* the caller of _list_children_folders / _list_children_files goes on
\* with what the listing returned
Continue(c, listed) ==
    CASE c.op = "list_patients" -> list_patients(c, listed)
      [] c.op = "list_classes"  -> list_classes(c, listed)
      [] c.op = "list_videos"   -> list_videos(c, listed)

\* GET /api/patients
api_list_patients ==
    /\ cat.pc = "idle"
    /\ cat' = StartListing([CatIdle EXCEPT !.op = "list_patients"],
                           1, ROOT, TRUE)
    /\ UNCHANGED remote

\* GET /api/patients/{patient_id}/classes
api_list_classes_for_patient(patient_id) ==
    /\ cat.pc = "idle"
    /\ cat' = StartListing([CatIdle EXCEPT !.op = "list_classes",
                                           !.patient_id = patient_id],
                           1, ROOT, TRUE)
    /\ UNCHANGED remote

\* GET /api/patients/{patient_id}/classes/{class_id}/videos
api_list_videos_for_patient_class(patient_id, class_id) ==
    /\ cat.pc = "idle"
    /\ cat' = StartListing([CatIdle EXCEPT !.op = "list_videos",
                                           !.patient_id = patient_id,
                                           !.class_id = class_id],
                           1, ROOT, TRUE)
    /\ UNCHANGED remote

\* one pass of the "while True" of _list_children_folders or
\* _list_children_files: the page is fetched and appended; without a
\* nextPageToken the listing returns children and the caller goes on
list_page_returns ==
    /\ cat.pc = "listing"
    /\ LET resp == RemotePage(cat.parent_id, cat.folders, cat.page_token)
           children == cat.children \o resp.files
       IN  IF resp.nextPageToken # 0
           THEN cat' = [cat EXCEPT !.children = children,
                                   !.page_token = resp.nextPageToken]
           ELSE cat' = Continue(cat, children)
    /\ UNCHANGED remote

\* mutant: the except clause returns the pages accumulated so far
list_page_raises_keeping ==
    /\ cat.pc = "listing"
    /\ cat' = Continue([cat EXCEPT !.failed = TRUE], cat.children)
    /\ UNCHANGED remote

\* execute() raises: "except Exception" prints and returns []
list_page_raises ==
    /\ cat.pc = "listing"
    /\ cat' = Continue([cat EXCEPT !.failed = TRUE], <<>>)
    /\ UNCHANGED remote

\* the response of a catalog request leaves the server
catalog_respond ==
    /\ cat.pc = "done"
    /\ cat' = CatIdle
    /\ UNCHANGED remote

InitCatalogVars ==
    /\ remote \in [root : RootListings, classes : ClassListings,
                   files : FileListings]
    /\ cat = CatIdle

QuietCatalogVars ==
    /\ remote = [root |-> <<>>, classes |-> <<>>, files |-> <<>>]
    /\ cat = CatIdle

\* ================================================ Drive client handle
NumThreads == 3   \* request threads of the worker pool
Threads    == 1..NumThreads
ThreadIdle == [pc |-> "idle", handle |-> 0]

\* A request calls get_drive_datasource().  The lru_cache wrapper looks the
\* key up: on a hit it returns the cached object; on a miss it calls the
\* function, which raises RuntimeError without the environment variable
\* and otherwise starts to construct a DriveDataSource.
get_drive_datasource_call(t) ==
    /\ threads[t].pc = "idle"
    /\ IF cache # <<>>
       THEN threads' = [threads EXCEPT ![t] =
                          [pc |-> "using", handle |-> cache[1]]]
       ELSE IF ~envSet
       THEN threads' = [threads EXCEPT ![t] =
                          [pc |-> "error", handle |-> 0]]
       ELSE threads' = [threads EXCEPT ![t] =
                          [pc |-> "building", handle |-> 0]]
    /\ UNCHANGED <<envSet, cache, built>>

\* DriveDataSource.__init__ returns.  The wrapper stores the new object
\* unless the key was added to the cache while the function ran, and
\* returns the new object in both cases.
get_drive_datasource_return(t) ==
    /\ threads[t].pc = "building"
    /\ built' = built + 1
    /\ cache' = IF cache = <<>> THEN <<built + 1>> ELSE cache
    /\ threads' = [threads EXCEPT ![t] =
                     [pc |-> "using", handle |-> built + 1]]
    /\ UNCHANGED envSet

\* the request that holds a handle, or failed to get one, ends
request_ends(t) ==
    /\ threads[t].pc \in {"using", "error"}
    /\ threads' = [threads EXCEPT ![t] = ThreadIdle]
    /\ UNCHANGED <<envSet, cache, built>>

InitClientVars ==
    /\ envSet \in BOOLEAN
    /\ cache = <<>>
    /\ built = 0
    /\ threads = [t \in Threads |-> ThreadIdle]

QuietClientVars ==
    /\ envSet = TRUE
    /\ cache = <<>>
    /\ built = 0
    /\ threads = [t \in Threads |-> ThreadIdle]

\* ====================================================== specifications
UserCreates == [username : Usernames, password : Passwords]
ChangePasswordRequests ==
    [username : Usernames, old_password : Passwords,
     new_password : Passwords]

InitHistory ==
    /\ InitHistoryVars /\ InitUserVars /\ InitStreamVars
    /\ QuietCatalogVars /\ QuietClientVars

NextHistory ==
    \/ \E entry \in HistoryEntryCreate :
          add_history(entry)
          /\ UNCHANGED <<userVars, streamVars, catVars, clientVars>>
    \/ \E annotator \in Annotators \cup {None} :
          list_history(annotator)
          /\ UNCHANGED <<userVars, streamVars, catVars, clientVars>>
    \/ \E entry_id \in 1..MaxId :
          delete_history(entry_id)
          /\ UNCHANGED <<userVars, streamVars, catVars, clientVars>>
    \/ HistoryRespond
          /\ UNCHANGED <<userVars, streamVars, catVars, clientVars>>
    \/ Tick /\ UNCHANGED <<userVars, streamVars, catVars, clientVars>>

SpecHistory == InitHistory /\ [][NextHistory]_vars

InitUsers == InitHistory

NextUsers ==
    \/ \E r \in Requests, user \in UserCreates :
          create_user_query(r, user)
          /\ UNCHANGED <<histVars, streamVars, catVars, clientVars>>
    \/ \E r \in Requests :
          create_user_commit(r)
          /\ UNCHANGED <<histVars, streamVars, catVars, clientVars>>
    \/ \E r \in Requests :
          create_user_return(r)
          /\ UNCHANGED <<histVars, streamVars, catVars, clientVars>>
    \/ \E payload \in UserCreates :
          delete_user(payload)
          /\ UNCHANGED <<histVars, streamVars, catVars, clientVars>>
    \/ \E payload \in UserCreates :
          login(payload)
          /\ UNCHANGED <<histVars, streamVars, catVars, clientVars>>
    \/ \E payload \in ChangePasswordRequests :
          change_password(payload)
          /\ UNCHANGED <<histVars, streamVars, catVars, clientVars>>
    \/ UserRespond
          /\ UNCHANGED <<histVars, streamVars, catVars, clientVars>>

SpecUsers == InitUsers /\ [][NextUsers]_vars

InitStream == InitHistory

NextStream ==
    \/ \E file \in Files, chunk_size \in 1..MaxChunk :
          download_video_stream(file, chunk_size)
          /\ UNCHANGED <<histVars, userVars, catVars, clientVars>>
    \/ next_chunk_returns
          /\ UNCHANGED <<histVars, userVars, catVars, clientVars>>
    \/ next_chunk_raises
          /\ UNCHANGED <<histVars, userVars, catVars, clientVars>>
    \/ resume_after_yield
          /\ UNCHANGED <<histVars, userVars, catVars, clientVars>>
    \/ stream_exhausted
          /\ UNCHANGED <<histVars, userVars, catVars, clientVars>>
    \/ stream_close
          /\ UNCHANGED <<histVars, userVars, catVars, clientVars>>

SpecStream == InitStream /\ [][NextStream]_vars

InitCatalog ==
    /\ InitHistoryVars /\ InitUserVars /\ InitStreamVars
    /\ InitCatalogVars /\ QuietClientVars

NextCatalog ==
    \/ api_list_patients
          /\ UNCHANGED <<histVars, userVars, streamVars, clientVars>>
    \/ \E patient_id \in PatientArgs :
          api_list_classes_for_patient(patient_id)
          /\ UNCHANGED <<histVars, userVars, streamVars, clientVars>>
    \/ \E patient_id \in PatientArgs, class_id \in ClassArgs :
          api_list_videos_for_patient_class(patient_id, class_id)
          /\ UNCHANGED <<histVars, userVars, streamVars, clientVars>>
    \/ list_page_returns
          /\ UNCHANGED <<histVars, userVars, streamVars, clientVars>>
    \/ list_page_raises
          /\ UNCHANGED <<histVars, userVars, streamVars, clientVars>>
    \/ catalog_respond
          /\ UNCHANGED <<histVars, userVars, streamVars, clientVars>>

SpecCatalog == InitCatalog /\ [][NextCatalog]_vars

InitClient ==
    /\ InitHistoryVars /\ InitUserVars /\ InitStreamVars
    /\ QuietCatalogVars /\ InitClientVars

NextClient ==
    \/ \E t \in Threads :
          get_drive_datasource_call(t)
          /\ UNCHANGED <<histVars, userVars, streamVars, catVars>>
    \/ \E t \in Threads :
          get_drive_datasource_return(t)
          /\ UNCHANGED <<histVars, userVars, streamVars, catVars>>
    \/ \E t \in Threads :
          request_ends(t)
          /\ UNCHANGED <<histVars, userVars, streamVars, catVars>>

SpecClient == InitClient /\ [][NextClient]_vars

\* ============================================================== claims

RowsOf(pair) ==
    {r \in history : <<r.patient_id, r.sequence_id>> = pair}

\* C1: every (patient_id, sequence_id) pair that was written by POST
\* /history has exactly one row, and that row carries the updated_label
\* and the timestamp of the most recent write for the pair.
C1_RowCarriesLatestWrite ==
    \A pair \in Pairs :
        written[pair] # NoWrite =>
            /\ Cardinality(RowsOf(pair)) = 1
            /\ \A r \in RowsOf(pair) :
                  /\ r.updated_label = written[pair][1]
                  /\ r.timestamp = written[pair][2]

\* C2: no POST /history ends in a rejection by the uniqueness constraint
\* uq_patient_sequence: every request is answered with the created or
\* updated record.
C2_NoConstraintRejection ==
    hResp.op = "add_history" =>
        /\ hResp.status = 201
        /\ hResp.error # "IntegrityError"
        /\ Len(hResp.body) = 1

NewestFirst(rows) ==
    \A i \in 1..Len(rows), j \in 1..Len(rows) :
        i < j => rows[i].timestamp >= rows[j].timestamp

IsListingOf(rows, S) ==
    /\ Range(rows) = S
    /\ Len(rows) = Cardinality(S)

\* C3 as stated: GET /history returns the stored rows newest timestamp
\* first, and whenever an annotator is given, exactly the rows of that
\* annotator.
C3_FilterWheneverGiven ==
    hResp.op = "list_history" =>
        /\ NewestFirst(hResp.body)
        /\ IF hResp.annotator = None
           THEN IsListingOf(hResp.body, history)
           ELSE IsListingOf(hResp.body,
                    {r \in history : r.annotator = hResp.annotator})

\* C3 as amended: GET /history returns the stored rows newest timestamp
\* first; with a non-empty annotator it returns exactly the rows of that
\* annotator, with an absent or empty annotator it returns every row.
C3_FilterWhenNonEmpty ==
    hResp.op = "list_history" =>
        /\ NewestFirst(hResp.body)
        /\ IF hResp.annotator \in {None, ""}
           THEN IsListingOf(hResp.body, history)
           ELSE IsListingOf(hResp.body,
                    {r \in history : r.annotator = hResp.annotator})

C3_Witness ==
    /\ hResp.op = "list_history"
    /\ hResp.annotator = "ann1"
    /\ Len(hResp.body) = 2
    /\ hResp.body[1].timestamp > hResp.body[2].timestamp
    /\ Cardinality(history) = 3

\* C4: no two user records share a username, and every POST /users that
\* does not create the user is answered with 400 "Username already
\* exists", whatever the interleaving of the requests.
C4_DuplicateCreateAnswered400 ==
    /\ \A u1 \in users, u2 \in users :
          u1.username = u2.username => u1 = u2
    /\ \A r \in Requests :
          reqs[r].pc = "done" =>
              \/ reqs[r].status = 201
              \/ /\ reqs[r].status = 400
                 /\ reqs[r].detail = "Username already exists"

Answers(op) == uResp = NoResp /\ uResp'.op = op

RowsNamed(username) == {u \in users : u.username = username}

\* C5: DELETE /users answers 404 for an unknown username and 403 for a
\* password that is not the user's current one, and changes no record in
\* both cases; with the current password it removes exactly the record of
\* that user.
C5_DeleteUserNeedsPassword ==
    [][Answers("delete_user") =>
         LET name == uResp'.username
         IN  IF RowsNamed(name) = {}
             THEN uResp'.status = 404 /\ users' = users
             ELSE IF uResp'.password # curPw[name]
             THEN uResp'.status = 403 /\ users' = users
             ELSE /\ uResp'.status = 200
                  /\ users' = users \ RowsNamed(name)
                  /\ Cardinality(RowsNamed(name)) = 1]_vars

C5_Witness ==
    /\ uResp.op = "delete_user"
    /\ uResp.status = 403
    /\ RowsNamed(uResp.username) # {}
    /\ curPw[uResp.username] = "pw2"

\* C6: POST /auth/login succeeds exactly when the user exists and the
\* password is the one set by the user's most recent successful create or
\* change-password; a change-password with a wrong old password is
\* answered 400 and leaves the stored hash unchanged.
C6_LoginIffCurrentPassword ==
    [][/\ Answers("login") =>
             (uResp'.status = 200 <=>
                 /\ RowsNamed(uResp'.username) # {}
                 /\ curPw[uResp'.username] = uResp'.password)
       /\ (/\ Answers("change_password")
           /\ RowsNamed(uResp'.username) # {}
           /\ curPw[uResp'.username] # uResp'.password) =>
             /\ uResp'.status = 400
             /\ users' = users
             /\ curPw' = curPw]_vars

C6_Witness ==
    /\ uResp.op = "login"
    /\ uResp.status = 200
    /\ uResp.password = "pw2"
    /\ \E u \in users : u.username = uResp.username /\ u.id = 2

ChunkAt(i) ==
    SubSeq(stream.file, (i - 1) * stream.chunk_size + 1,
           Min(i * stream.chunk_size, Len(stream.file)))

\* C7: when the fetch raises on chunk step k, the generator has yielded
\* exactly the k-1 chunks fetched before, yields nothing for step k, ends
\* normally and fetches no more.
C7_FailedFetchEndsStream ==
    (stream.pc = "finished" /\ stream.failedAt >= 1) =>
        /\ Len(stream.yielded) = stream.failedAt - 1
        /\ \A i \in 1..Len(stream.yielded) : stream.yielded[i] = ChunkAt(i)
        /\ stream.fetches = stream.failedAt

C7_Witness ==
    /\ stream.pc = "finished"
    /\ stream.failedAt = 3
    /\ Len(stream.yielded) = 2

\* C8: when a remote listing call fails during list_patients, list_classes
\* or list_videos, on the first or on a later page, the operation returns
\* the empty sequence and the HTTP answer is no server error.
C8_ListingFailureGivesEmpty ==
    (cat.pc = "done" /\ cat.failed) =>
        /\ cat.result = <<>>
        /\ cat.status \in {200, 404}

C8_Witness ==
    /\ cat.pc = "done"
    /\ cat.failed
    /\ cat.page_token > 0
    /\ cat.stage = 2
    /\ cat.op = "list_classes"

\* C9: the Drive client handle is constructed at most once per process and
\* all requests use the same handle, whatever the interleaving.
C9_HandleConstructedOnce ==
    /\ built <= 1
    /\ \A t1 \in Threads, t2 \in Threads :
          (threads[t1].pc = "using" /\ threads[t2].pc = "using") =>
              threads[t1].handle = threads[t2].handle

PositionIn(s, x) == CHOOSE i \in 1..Len(s) : s[i] = x

FolderNames(listing) ==
    {listing[i].name : i \in {j \in 1..Len(listing) : listing[j].folder}}

\* C10: without a listing failure, list_classes of a patient that is a
\* subfolder of the root returns the members of <<H-LUS, C-LUS, I-LUS>>
\* that name a subfolder of the patient, each once and in that order; for a
\* patient that is no subfolder of the root it returns the empty sequence
\* and the answer is 404.
C10_ClassesInFixedOrder ==
    (cat.pc = "done" /\ cat.op = "list_classes" /\ ~cat.failed) =>
        IF cat.patient_id \in FolderNames(remote.root)
        THEN /\ Range(cat.result) =
                   Range(VALID) \cap FolderNames(remote.classes)
             /\ \A i \in 1..Len(cat.result), j \in 1..Len(cat.result) :
                   i < j => PositionIn(VALID, cat.result[i])
                               < PositionIn(VALID, cat.result[j])
        ELSE cat.result = <<>> /\ cat.status = 404

C10_Witness ==
    /\ cat.pc = "done"
    /\ cat.op = "list_classes"
    /\ ~cat.failed
    /\ remote.classes = <<Folder(CLUS), Folder(XOTHER), Folder(HLUS)>>
    /\ cat.result = <<HLUS, CLUS>>

RECURSIVE Concat(_)
Concat(chunks) ==
    IF chunks = <<>> THEN <<>> ELSE Head(chunks) \o Concat(Tail(chunks))

\* C11: at every point of a download_video_stream run the chunks yielded so
\* far, concatenated, are a prefix of the remote file and are exactly the
\* bytes downloaded so far, each once and in order; no chunk is empty; the
\* number of fetches is bounded by the number of ranges of the file; and
\* when the generator ends without a failed fetch the chunks make up the
\* whole file.
C11_YieldedIsPrefixOfFile ==
    stream.pc # "idle" =>
        LET out == Concat(stream.yielded)
        IN  /\ Len(out) <= Len(stream.file)
            /\ out = SubSeq(stream.file, 1, Len(out))
            /\ Len(out) = stream.progress
            /\ \A i \in 1..Len(stream.yielded) : stream.yielded[i] # <<>>
            /\ \/ stream.fetches <= 1
               \/ (stream.fetches - 1) * stream.chunk_size < Len(stream.file)
            /\ (stream.pc = "finished" /\ stream.failedAt = 0) =>
                  out = stream.file

C11_Witness ==
    /\ stream.pc = "finished"
    /\ stream.failedAt = 0
    /\ Len(stream.file) = 3
    /\ Len(stream.yielded) = 2
    /\ Concat(stream.yielded) = stream.file

====
